---- MODULE Spec2Model ----
(***************************************************************************)
(* build_community_context of graphrag/query/context_builder/              *)
(* community_context.py as a state machine: one call of the builder, from  *)
(* the weight computation through filtering, shuffling, the batching loop  *)
(* and the final return (or the exception that ends the call).             *)
(***************************************************************************)
EXTENDS Integers, Sequences, FiniteSets, TLC

(* ------------------------------------------------------------ bounds *)
\* longest report list handed to the builder in the batching runs
MaxReports == 3
\* largest max_tokens budget tried
MaxTokens == 4
\* longest report list in the weight runs
MaxWReports == 2
\* longest entity list in the weight runs
MaxEntities == 2

(* ----------------------------------------------------------- numbers *)
\* A Python number: n/d in lowest terms, f = TRUE for a float, FALSE for an int.
PyInt(k) == [n |-> k, d |-> 1, f |-> FALSE]

RECURSIVE GCD(_, _)
GCD(a, b) == IF b = 0 THEN a ELSE GCD(b, a % b)

\* int / int of Python 3: true division, the result is a float
TrueDiv(a, b) ==
    LET g == GCD(a.n, b.n)
    IN  [n |-> a.n \div g, d |-> b.n \div g, f |-> TRUE]

\* float(x)
AsFloat(x) == [x EXCEPT !.f = TRUE]

\* bool(x) of a number
Truthy(x) == x.n # 0

Geq(a, b) == a.n * b.d >= b.n * a.d
NumEq(a, b) == a.n * b.d = b.n * a.d

\* the digits after the point of the float r/d, 0 <= r < d
Frac(r, d) ==
    CASE r = 0 -> "0"
      [] r = 1 /\ d = 2 -> "5"
      [] r = 1 /\ d = 3 -> "3333333333333333"
      [] r = 2 /\ d = 3 -> "6666666666666666"
      [] r = 1 /\ d = 4 -> "25"
      [] r = 3 /\ d = 4 -> "75"

\* str(x): "2" for the int 2, "2.0" for the float 2.0, "0.5" for 1/2
Str(x) ==
    IF ~x.f THEN ToString(x.n)
    ELSE IF x.d = 1 THEN ToString(x.n) \o ".0"
    ELSE ToString(x.n \div x.d) \o "." \o Frac(x.n % x.d, x.d)

\* the floats the model's texts can denote
Floats ==
    {[n |-> a, d |-> b, f |-> TRUE] : a \in -2..4, b \in {1}} \cup
    {[n |-> a, d |-> b, f |-> TRUE] : a \in {1}, b \in {2, 3, 4}} \cup
    {[n |-> a, d |-> b, f |-> TRUE] : a \in {2}, b \in {3}} \cup
    {[n |-> a, d |-> b, f |-> TRUE] : a \in {3}, b \in {4}}

\* the texts float() accepts: the int and the float spellings
Spellings(x) == {Str(x)} \cup (IF x.d = 1 THEN {ToString(x.n)} ELSE {})

\* float(s) succeeds
Parsable(s) == \E x \in Floats : s \in Spellings(x)

\* float(s), the value astype(float) stores
Float(s) == CHOOSE x \in Floats : s \in Spellings(x)

(* ------------------------------------------------------- data model *)
NoRank == <<>>
Rank(k) == <<PyInt(k)>>
HasRank(report) == report.rank # NoRank
RankOf(report) == report.rank[1]

\* CommunityReport.attributes: an insertion-ordered dict, kept as a sequence
\* of [k, v] pairs with distinct keys; None and {} are both <<>>.
NoAttributes == <<>>
Keys(attributes) == [i \in 1..Len(attributes) |-> attributes[i].k]
HasKey(attributes, key) == \E i \in 1..Len(attributes) : attributes[i].k = key
\* attributes.get(key) for a key that is present
Get(attributes, key) ==
    attributes[CHOOSE i \in 1..Len(attributes) : attributes[i].k = key].v
\* attributes[key] = value: in place when the key exists, appended otherwise
Put(attributes, key, value) ==
    IF HasKey(attributes, key)
    THEN [i \in 1..Len(attributes) |->
            IF attributes[i].k = key THEN [k |-> key, v |-> value]
            ELSE attributes[i]]
    ELSE Append(attributes, [k |-> key, v |-> value])

\* parameter defaults of build_community_context
WeightName == "occurrence weight"
RankName == "rank"
ContextName == "Reports"
RandomState == 86
\* a column argument of None (or "", which the code treats alike)
NoColumn == ""

VARIABLES
    pc,                      \* where the call stands
    cfg,                     \* the keyword arguments of the call
    entities,                \* entities argument; None and [] are both <<>>
    community_reports,       \* the caller's report objects (mutated in place)
    log,                     \* messages passed to log.info
    selected_reports,
    attribute_cols,
    header,
    current_context_text,
    current_tokens,
    current_context_records,
    all_context_text,
    all_context_records,
    idx,                     \* position of the for loop in selected_reports
    ret,                     \* the returned tuple, once returned
    exception,               \* the exception that ended the call, if any
    emitter_pc,              \* where ParquetTableEmitter.emit stands
    filename,                \* emit's local filename
    parquet,                 \* the value of data.to_parquet(), once computed
    e,                       \* the exception bound by the except clause
    storage,                 \* self._storage: file name -> stored bytes
    on_error,                \* the calls self._on_error has received
    emitter_log,             \* records of the emitter module's logger
    emitted                  \* emit calls the pipeline has got back from

vars == <<pc, cfg, entities, community_reports, log, selected_reports,
          attribute_cols, header, current_context_text, current_tokens,
          current_context_records, all_context_text, all_context_records,
          idx, ret, exception, emitter_pc, filename, parquet, e, storage,
          on_error, emitter_log, emitted>>

emittervars == <<emitter_pc, filename, parquet, e, storage, on_error,
                 emitter_log, emitted>>

buildervars == <<pc, cfg, entities, community_reports, log, selected_reports,
                 attribute_cols, header, current_context_text, current_tokens,
                 current_context_records, all_context_text,
                 all_context_records, idx, ret, exception>>

loopvars == <<selected_reports, attribute_cols, header, current_context_text,
              current_tokens, current_context_records, all_context_text,
              all_context_records, idx>>

(* ------------------------------------------- _compute_community_weights *)
\* set(community_text_units.get(community_id, [])): the text units of every
\* entity that lists the community
CommunityTextUnits(ents, community_id) ==
    UNION {ents[i].text_unit_ids :
             i \in {j \in 1..Len(ents) :
                      /\ ents[j].community_ids # {}
                      /\ community_id \in ents[j].community_ids}}

\* the weights when the list of a community is counted without set(): a
\* text unit counts once for every entity that names it
AssignWeightsCountingRepeats(reports, ents) ==
    LET RECURSIVE Count(_, _)
        Count(es, community_id) ==
            IF es = <<>> THEN 0
            ELSE (IF community_id \in Head(es).community_ids
                  THEN Cardinality(Head(es).text_unit_ids) ELSE 0)
                 + Count(Tail(es), community_id)
    IN  [i \in 1..Len(reports) |->
            [reports[i] EXCEPT !.attributes =
                Put(@, WeightName, PyInt(Count(ents, reports[i].community_id)))]]

\* the first loop over the reports: attributes[weight_attribute] = len(set(..))
AssignWeights(reports, ents) ==
    [i \in 1..Len(reports) |->
        [reports[i] EXCEPT !.attributes =
            Put(@, WeightName,
                PyInt(Cardinality(CommunityTextUnits(ents, reports[i].community_id))))]]

\* max(all_weights)
MaxWeightOfFirst(reports) == Get(reports[1].attributes, WeightName)
MaxWeight(reports) ==
    LET all_weights == {Get(reports[i].attributes, WeightName) :
                          i \in {j \in 1..Len(reports) : reports[j].attributes # NoAttributes}}
    IN  CHOOSE w \in all_weights : \A v \in all_weights : Geq(w, v)

\* the second loop: every weight divided by max_weight
NormalizeWeights(reports, max_weight) ==
    [i \in 1..Len(reports) |->
        IF reports[i].attributes # NoAttributes
        THEN [reports[i] EXCEPT !.attributes =
                Put(@, WeightName, TrueDiv(Get(@, WeightName), max_weight))]
        ELSE reports[i]]

\* the guard of lines 49-57: only the first report is looked at
WeightsWanted ==
    /\ entities # <<>>
    /\ Len(community_reports) > 0
    /\ cfg.include_community_weight
    /\ ~HasKey(community_reports[1].attributes, WeightName)

ComputeWeights ==
    /\ pc = "weights"
    /\ WeightsWanted
    /\ log' = Append(log, "Computing community weights...")
    /\ LET weighted == AssignWeights(community_reports, entities)
           max_weight == MaxWeight(weighted)
       IN  IF cfg.normalize_community_weight
           THEN IF max_weight.n = 0
                THEN \* 0 / 0 at the first report
                     /\ community_reports' = weighted
                     /\ pc' = "raised"
                     /\ exception' = "ZeroDivisionError"
                ELSE /\ community_reports' = NormalizeWeights(weighted, max_weight)
                     /\ pc' = "filter"
                     /\ UNCHANGED exception
           ELSE /\ community_reports' = weighted
                /\ pc' = "filter"
                /\ UNCHANGED exception
    /\ UNCHANGED <<emittervars, cfg, entities, loopvars, ret>>

SkipWeights ==
    /\ pc = "weights"
    /\ ~WeightsWanted
    /\ pc' = "filter"
    /\ UNCHANGED <<emittervars, cfg, entities, community_reports, log, loopvars, ret, exception>>

(* ------------------------------------------------- filter and shuffle *)
\* report.rank and report.rank >= min_community_rank
KeepsAnyRank(report, min_community_rank) ==
    /\ HasRank(report)
    /\ Truthy(RankOf(report))
Keeps(report, min_community_rank) ==
    /\ HasRank(report)
    /\ Truthy(RankOf(report))
    /\ Geq(RankOf(report), PyInt(min_community_rank))

Selected(reports, min_community_rank) ==
    LET keep(r) == Keeps(r, min_community_rank) IN SelectSeq(reports, keep)

NoReturn == [type |-> "none", text |-> <<>>, tables |-> <<>>]

\* lines 67-73 (an empty selection returns ([], {}))
FilterReports ==
    /\ pc = "filter"
    /\ selected_reports' = Selected(community_reports, cfg.min_community_rank)
    /\ IF Len(selected_reports') = 0
       THEN /\ ret' = [type |-> "list", text |-> <<>>, tables |-> <<>>]
            /\ pc' = "done"
       ELSE /\ pc' = "shuffle"
            /\ UNCHANGED ret
    /\ UNCHANGED <<emittervars, cfg, entities, community_reports, log, attribute_cols, header,
                   current_context_text, current_tokens, current_context_records,
                   all_context_text, all_context_records, idx, exception>>

\* random.seed(random_state); random.shuffle(x) of CPython for the default
\* seed, as the order in which the elements of x end up, for len(x) = 1..5
ShuffleOrder(random_state, n) ==
    CASE random_state = 86 /\ n = 1 -> <<1>>
      [] random_state = 86 /\ n = 2 -> <<2, 1>>
      [] random_state = 86 /\ n = 3 -> <<3, 2, 1>>
      [] random_state = 86 /\ n = 4 -> <<4, 2, 3, 1>>
      [] random_state = 86 /\ n = 5 -> <<2, 5, 4, 3, 1>>

Shuffled(reports) ==
    LET order == ShuffleOrder(RandomState, Len(reports))
    IN  [i \in 1..Len(reports) |-> reports[order[i]]]

\* lines 75-77
Shuffle ==
    /\ pc = "shuffle"
    /\ cfg.shuffle_data
    /\ selected_reports' = Shuffled(selected_reports)
    /\ pc' = "header"
    /\ UNCHANGED <<emittervars, cfg, entities, community_reports, log, attribute_cols, header,
                   current_context_text, current_tokens, current_context_records,
                   all_context_text, all_context_records, idx, ret, exception>>

NoShuffle ==
    /\ pc = "shuffle"
    /\ ~cfg.shuffle_data
    /\ pc' = "header"
    /\ UNCHANGED <<emittervars, cfg, entities, community_reports, log, loopvars, ret, exception>>

(* ------------------------------------------------------ header and rows *)
\* A text is a sequence of lines, a line a sequence of fields (joined by the
\* column delimiter when written out).
Banner == <<"-----" \o ContextName \o "-----">>

\* the columns when the weight column is never taken out
AttributeColsKeepingWeight(report, include_community_weight) ==
    LET notInHeader(col) == col \notin {"id", "title"}
    IN  SelectSeq(Keys(report.attributes), notInHeader)

\* [col for col in cols if keep(col)]
AttributeCols(report, include_community_weight) ==
    LET notInHeader(col) == col \notin {"id", "title"}
        notWeight(col) == col # WeightName
        cols == SelectSeq(Keys(report.attributes), notInHeader)
    IN  IF include_community_weight THEN cols ELSE SelectSeq(cols, notWeight)

\* lines 84-96
Header(cols, use_community_summary, include_community_rank) ==
    <<"id", "title">> \o cols
      \o <<IF use_community_summary THEN "summary" ELSE "content">>
      \o (IF include_community_rank THEN <<RankName>> ELSE <<>>)

\* lines 108-121: the row of one report
NewContextMissingAsNone(report, cols, use_community_summary, include_community_rank) ==
    <<report.short_id, report.title>>
      \o [i \in 1..Len(cols) |->
            IF report.attributes # NoAttributes /\ HasKey(report.attributes, cols[i])
            THEN Str(Get(report.attributes, cols[i]))
            ELSE "None"]
      \o <<IF use_community_summary THEN report.summary ELSE report.full_content>>
      \o (IF include_community_rank THEN <<Str(RankOf(report))>> ELSE <<>>)
NewContext(report, cols, use_community_summary, include_community_rank) ==
    <<report.short_id, report.title>>
      \o [i \in 1..Len(cols) |->
            IF report.attributes # NoAttributes /\ HasKey(report.attributes, cols[i])
            THEN Str(Get(report.attributes, cols[i]))
            ELSE ""]
      \o <<IF use_community_summary THEN report.summary ELSE report.full_content>>
      \o (IF include_community_rank THEN <<Str(RankOf(report))>> ELSE <<>>)

\* num_tokens(new_context_text, token_encoder): the injected counter, given by
\* the count it returns for the report's row
NumTokens(report) == report.ntok

\* lines 81-103
StartContext ==
    /\ pc = "header"
    /\ attribute_cols' = AttributeCols(selected_reports[1], cfg.include_community_weight)
    /\ header' = Header(attribute_cols', cfg.use_community_summary,
                        cfg.include_community_rank)
    /\ current_context_text' = <<Banner, header'>>
    /\ current_tokens' = cfg.header_tokens
    /\ current_context_records' = <<header'>>
    /\ all_context_text' = <<>>
    /\ all_context_records' = <<>>
    /\ idx' = 1
    /\ pc' = "loop"
    /\ UNCHANGED <<emittervars, cfg, entities, community_reports, log, selected_reports, ret,
                   exception>>

(* ------------------------------------------- data frames and their sort *)
\* A pandas DataFrame: its column names and its rows, in index order.  A
\* column converted by astype(float) holds the float's text, as to_csv
\* writes it.
EmptyFrame == [columns |-> <<>>, rows |-> <<>>]

InHeader(columns, col) == \E i \in 1..Len(columns) : columns[i] = col
ColumnIndex(columns, col) == CHOOSE i \in 1..Len(columns) : columns[i] = col

\* rank_attributes of _rank_report_context
RankAttributes(weight_column, rank_column) ==
    (IF weight_column # NoColumn THEN <<weight_column>> ELSE <<>>)
      \o (IF rank_column # NoColumn THEN <<rank_column>> ELSE <<>>)

\* report_df[col] = report_df[col].astype(float) raises: "KeyError" for a
\* column the frame lacks, "ValueError" for a cell that is no number
AsTypeFault(columns, rows, col) ==
    IF ~InHeader(columns, col) THEN "KeyError"
    ELSE IF \E i \in 1..Len(rows) : ~Parsable(rows[i][ColumnIndex(columns, col)])
         THEN "ValueError"
         ELSE "none"

\* the first exception of _rank_report_context, "none" when it returns
RankFault(columns, rows, weight_column, rank_column) ==
    LET wf == IF weight_column # NoColumn
              THEN AsTypeFault(columns, rows, weight_column) ELSE "none"
        rf == IF rank_column # NoColumn
              THEN AsTypeFault(columns, rows, rank_column) ELSE "none"
    IN  IF wf # "none" THEN wf ELSE rf

\* report_df[col].astype(float)
AsTypeFloat(columns, rows, col) ==
    LET c == ColumnIndex(columns, col)
    IN  [i \in 1..Len(rows) |-> [rows[i] EXCEPT ![c] = Str(Float(@))]]

RECURSIVE AsTypeFloatAll(_, _, _)
AsTypeFloatAll(columns, rows, by) ==
    IF by = <<>> THEN rows
    ELSE AsTypeFloatAll(columns, AsTypeFloat(columns, rows, Head(by)), Tail(by))

\* row a sorts strictly before row b, descending on the columns of by in turn
RECURSIVE Before(_, _, _, _)
Before(columns, a, b, by) ==
    IF by = <<>> THEN FALSE
    ELSE LET c == ColumnIndex(columns, Head(by))
             x == Float(a[c])
             y == Float(b[c])
         IN  IF NumEq(x, y) THEN Before(columns, a, b, Tail(by))
             ELSE Geq(x, y)

Orders(n) ==
    {p \in [1..n -> 1..n] : \A i, j \in 1..n : i # j => p[i] # p[j]}

\* sort_values(by=by, ascending=False): the orders the sort may leave.  With
\* two columns pandas sorts stably (lexsort); with one it uses numpy's
\* quicksort, which fixes no order among equal keys.
SortOrders(columns, rows, by) ==
    {p \in Orders(Len(rows)) :
        \A i, j \in 1..Len(rows) : i < j =>
            \/ Before(columns, rows[p[i]], rows[p[j]], by)
            \/ /\ ~Before(columns, rows[p[j]], rows[p[i]], by)
               /\ (Len(by) = 1 \/ p[i] < p[j])}

\* _rank_report_context, for a frame on which it raises nothing
RankReportContext(columns, rows, weight_column, rank_column) ==
    LET by == RankAttributes(weight_column, rank_column)
        floats == AsTypeFloatAll(columns, rows, by)
    IN  IF Len(by) > 0
        THEN {[columns |-> columns, rows |-> [i \in 1..Len(rows) |-> floats[p[i]]]] :
                p \in SortOrders(columns, floats, by)}
        ELSE {[columns |-> columns, rows |-> floats]}

\* _convert_report_context_to_df: the frames it may return
ConvertReportContextToDf(context_records, columns, weight_column, rank_column) ==
    RankReportContext(columns, context_records, weight_column, rank_column)

\* record_df.to_csv(index=False, sep=column_delimiter); an empty frame is
\* written as one empty line
ToCsv(df) == IF df.columns = <<>> THEN << <<>> >> ELSE <<df.columns>> \o df.rows

\* pd.concat(frames, ignore_index=True)
RECURSIVE ConcatRows(_)
ConcatRows(frames) ==
    IF frames = <<>> THEN <<>> ELSE Head(frames).rows \o ConcatRows(Tail(frames))
Concat(frames) ==
    LET filled == {i \in 1..Len(frames) : frames[i].columns # <<>>}
    IN  [columns |-> IF filled = {} THEN <<>>
                     ELSE frames[CHOOSE i \in filled : \A j \in filled : i <= j].columns,
         rows |-> ConcatRows(frames)]

\* context_name.lower()
Lower(name) == CASE name = "Reports" -> "reports"

(* ---------------------------------------------------- the batching loop *)
\* line 129
OverflowsRowAlone(current, new, max_tokens) == new > max_tokens
OverflowsAtBudget(current, new, max_tokens) == current + new >= max_tokens
Overflows(current, new, max_tokens) == current + new > max_tokens

\* the weight_column and rank_column arguments of lines 138-141 and 180-183
WeightColumn ==
    IF entities # <<>> /\ cfg.include_community_weight THEN WeightName ELSE NoColumn
RankColumn == IF cfg.include_community_rank THEN RankName ELSE NoColumn

\* lines 134-145 and 176-186: the exception raised while the current batch
\* is converted ("none" when there is none), and the frames it may become
BatchFault(records) ==
    IF Len(records) > 1
    THEN RankFault(records[1], Tail(records), WeightColumn, RankColumn)
    ELSE "none"
BatchFrames(records) ==
    IF Len(records) > 1
    THEN ConvertReportContextToDf(Tail(records), records[1], WeightColumn, RankColumn)
    ELSE {EmptyFrame}

AtReport == pc = "loop" /\ idx <= Len(selected_reports)
ThisRow == NewContext(selected_reports[idx], attribute_cols,
                      cfg.use_community_summary, cfg.include_community_rank)
ThisOverflows ==
    Overflows(current_tokens, NumTokens(selected_reports[idx]), cfg.max_tokens)

\* lines 167-170: the row fits
AddReport ==
    /\ AtReport
    /\ ~ThisOverflows
    /\ current_context_text' = Append(current_context_text, ThisRow)
    /\ current_tokens' = current_tokens + NumTokens(selected_reports[idx])
    /\ current_context_records' = Append(current_context_records, ThisRow)
    /\ idx' = idx + 1
    /\ UNCHANGED <<emittervars, pc, cfg, entities, community_reports, log, selected_reports,
                   attribute_cols, header, all_context_text, all_context_records,
                   ret, exception>>

\* lines 129-152 with single_batch: the batch built so far is returned
OverflowSingleBatch ==
    /\ AtReport
    /\ ThisOverflows
    /\ cfg.single_batch
    /\ IF BatchFault(current_context_records) # "none"
       THEN /\ pc' = "raised"
            /\ exception' = BatchFault(current_context_records)
            /\ UNCHANGED <<current_context_text, ret>>
       ELSE \E record_df \in BatchFrames(current_context_records) :
            /\ current_context_text' = ToCsv(record_df)
            /\ ret' = [type |-> "str", text |-> current_context_text',
                       tables |-> <<[k |-> Lower(ContextName), v |-> record_df]>>]
            /\ pc' = "done"
            /\ UNCHANGED exception
    /\ UNCHANGED <<emittervars, cfg, entities, community_reports, log, selected_reports,
                   attribute_cols, header, current_tokens, current_context_records,
                   all_context_text, all_context_records, idx>>

\* the overflow step when the records of the closed batch are not cleared
OverflowNewBatchKeepingRecords ==
    /\ AtReport
    /\ ThisOverflows
    /\ ~cfg.single_batch
    /\ IF BatchFault(current_context_records) # "none"
       THEN /\ pc' = "raised"
            /\ exception' = BatchFault(current_context_records)
            /\ UNCHANGED <<current_context_text, current_tokens,
                           current_context_records, all_context_text,
                           all_context_records, idx>>
       ELSE \E record_df \in BatchFrames(current_context_records) :
            /\ all_context_text' = Append(all_context_text, ToCsv(record_df))
            /\ all_context_records' = Append(all_context_records, record_df)
            /\ current_context_text' = <<Banner, header>>
            /\ current_tokens' = cfg.header_tokens
            /\ idx' = idx + 1
            /\ UNCHANGED <<pc, exception, current_context_records>>
    /\ UNCHANGED <<emittervars, cfg, entities, community_reports, log, selected_reports,
                   attribute_cols, header, ret>>

\* lines 129-165 without single_batch: the batch is closed and a new one,
\* holding the header alone, is started; the loop moves on to the next report
OverflowNewBatch ==
    /\ AtReport
    /\ ThisOverflows
    /\ ~cfg.single_batch
    /\ IF BatchFault(current_context_records) # "none"
       THEN /\ pc' = "raised"
            /\ exception' = BatchFault(current_context_records)
            /\ UNCHANGED <<current_context_text, current_tokens,
                           current_context_records, all_context_text,
                           all_context_records, idx>>
       ELSE \E record_df \in BatchFrames(current_context_records) :
            /\ all_context_text' = Append(all_context_text, ToCsv(record_df))
            /\ all_context_records' = Append(all_context_records, record_df)
            /\ current_context_text' = <<Banner, header>>
            /\ current_tokens' = cfg.header_tokens
            /\ current_context_records' = <<header>>
            /\ idx' = idx + 1
            /\ UNCHANGED <<pc, exception>>
    /\ UNCHANGED <<emittervars, cfg, entities, community_reports, log, selected_reports,
                   attribute_cols, header, ret>>

InList(x, list) == \E i \in 1..Len(list) : list[i] = x

\* lines 175-193: the last batch and the return
Finish ==
    /\ pc = "loop"
    /\ idx > Len(selected_reports)
    /\ IF ~InList(current_context_text, all_context_text)
       THEN IF BatchFault(current_context_records) # "none"
            THEN /\ pc' = "raised"
                 /\ exception' = BatchFault(current_context_records)
                 /\ UNCHANGED <<current_context_text, all_context_text,
                                all_context_records, ret>>
            ELSE \E record_df \in BatchFrames(current_context_records) :
                 /\ all_context_records' = Append(all_context_records, record_df)
                 /\ current_context_text' = ToCsv(record_df)
                 /\ all_context_text' = Append(all_context_text, current_context_text')
                 /\ ret' = [type |-> "list", text |-> all_context_text',
                            tables |-> <<[k |-> Lower(ContextName),
                                          v |-> Concat(all_context_records')]>>]
                 /\ pc' = "done"
                 /\ UNCHANGED exception
       ELSE /\ ret' = [type |-> "list", text |-> all_context_text,
                       tables |-> <<[k |-> Lower(ContextName),
                                     v |-> Concat(all_context_records)]>>]
            /\ pc' = "done"
            /\ UNCHANGED <<current_context_text, all_context_text,
                           all_context_records, exception>>
    /\ UNCHANGED <<emittervars, cfg, entities, community_reports, log, selected_reports,
                   attribute_cols, header, current_tokens, current_context_records,
                   idx>>

Next ==
    \/ ComputeWeights
    \/ SkipWeights
    \/ FilterReports
    \/ Shuffle
    \/ NoShuffle
    \/ StartContext
    \/ AddReport
    \/ OverflowSingleBatch
    \/ OverflowNewBatch
    \/ Finish

(* --------------------------------------------- ParquetTableEmitter.emit *)
\* the emit calls one pipeline run makes
MaxEmits == 3

NoException == "none"
NoBytes == "none"
ArrowErrors == {"ArrowTypeError", "ArrowInvalid"}

\* the table names the pipeline emits, and the files they are stored in
TableNames == {"entities", "nodes"}
FileName(name) == name \o ".parquet"
FileNames == {FileName(name) : name \in TableNames}

\* The data frames handed to emit, by what matters to the conversion: whether
\* the column labels are strings, and what the cells of a column hold.
DataFrames ==
    [column_labels : {"str", "int"},
     cells : {"int64", "str", "mixed", "object"}]

\* data.to_parquet() with the pyarrow engine: labels that are not strings are
\* refused with a ValueError before the conversion; a column mixing str and
\* int cells ends in ArrowTypeError, a column of arbitrary objects in
\* ArrowInvalid; otherwise the bytes of the file.
ToParquet(data) ==
    IF data.column_labels # "str"
    THEN [raises |-> "ValueError", bytes |-> NoBytes]
    ELSE IF data.cells = "mixed"
    THEN [raises |-> "ArrowTypeError", bytes |-> NoBytes]
    ELSE IF data.cells = "object"
    THEN [raises |-> "ArrowInvalid", bytes |-> NoBytes]
    ELSE [raises |-> NoException, bytes |-> "PAR1 " \o data.cells]

\* what self._storage.set can end with besides success: the storage is
\* injected, so it may raise errors of its own or pass on an Arrow error
StorageFaults == {"OSError", "ArrowTypeError", "ArrowInvalid"}

\* a handler that has only the first except clause
CatchesArrowTypeErrorOnly(raised) == raised = "ArrowTypeError"

\* except ArrowTypeError (line 43), except ArrowInvalid (line 50)
Catches(raised) == raised \in {"ArrowTypeError", "ArrowInvalid"}

\* traceback.format_exc() while the exception is being handled
FormatExc(raised) == "Traceback (most recent call last): " \o raised

\* the arguments one call of self._on_error receives (lines 45-49, 52-56)
OnErrorCall(raised) == <<raised, FormatExc(raised), "None">>

EmitterIdle ==
    /\ emitter_pc = "idle"
    /\ filename = ""
    /\ parquet = NoBytes
    /\ e = NoException
    /\ storage = [f \in FileNames |-> NoBytes]
    /\ on_error = <<>>
    /\ emitter_log = <<>>
    /\ emitted = 0

\* An exception leaves the try block (lines 43-56): a caught one is logged and
\* handed to self._on_error, and emit returns None; any other propagates to
\* the caller of emit.  logged is the emitter's log so far.
Except(raised, logged) ==
    /\ e' = raised
    /\ IF Catches(raised)
       THEN /\ emitter_log' =
                Append(logged, <<"exception", "Error while emitting parquet table">>)
            /\ on_error' = Append(on_error, OnErrorCall(raised))
            /\ emitter_pc' = "returned"
       ELSE /\ emitter_log' = logged
            /\ on_error' = on_error
            /\ emitter_pc' = "raised"

\* lines 37-42, up to the await: the file name, the log record, and
\* data.to_parquet()
EmitCall ==
    /\ emitter_pc = "idle"
    /\ emitted < MaxEmits
    /\ \E name \in TableNames, data \in DataFrames :
          LET logged == Append(emitter_log,
                               <<"info", "emitting parquet table " \o FileName(name)>>)
              out == ToParquet(data)
          IN  /\ filename' = FileName(name)
              /\ IF out.raises = NoException
                 THEN /\ parquet' = out.bytes
                      /\ emitter_pc' = "set"
                      /\ emitter_log' = logged
                      /\ UNCHANGED <<e, on_error>>
                 ELSE /\ Except(out.raises, logged)
                      /\ UNCHANGED parquet
    /\ UNCHANGED <<storage, emitted, buildervars>>

\* line 42: await self._storage.set(filename, ...) completes or raises
StorageSet ==
    /\ emitter_pc = "set"
    /\ \E outcome \in {"ok"} \cup StorageFaults :
          IF outcome = "ok"
          THEN /\ storage' = [storage EXCEPT ![filename] = parquet]
               /\ emitter_pc' = "returned"
               /\ UNCHANGED <<e, on_error, emitter_log>>
          ELSE /\ Except(outcome, emitter_log)
               /\ UNCHANGED storage
    /\ UNCHANGED <<filename, parquet, emitted, buildervars>>

\* emit has returned None: the pipeline goes on to its next table
EmitReturn ==
    /\ emitter_pc = "returned"
    /\ emitter_pc' = "idle"
    /\ filename' = ""
    /\ parquet' = NoBytes
    /\ e' = NoException
    /\ emitted' = emitted + 1
    /\ UNCHANGED <<storage, on_error, emitter_log, buildervars>>

NextEmit ==
    \/ EmitCall
    \/ StorageSet
    \/ EmitReturn

(* ----------------------------------------------------------- the inputs *)
\* the i-th report of the input list
Report(i, c) ==
    [short_id |-> ToString(i),
     title |-> "T" \o ToString(i),
     summary |-> "S" \o ToString(i),
     full_content |-> "C" \o ToString(i),
     rank |-> c.rank,
     community_id |-> c.community_id,
     attributes |-> c.attributes,
     ntok |-> c.ntok]

ReportLists(choices, maxlen) ==
    UNION {{[i \in 1..n |-> Report(i, f[i])] : f \in [1..n -> choices]} :
             n \in 0..maxlen}

Lists(choices, maxlen) == UNION {[1..n -> choices] : n \in 0..maxlen}

Weight(w) == <<[k |-> WeightName, v |-> PyInt(w)]>>

InitWith(reportLists, entityLists, cfgs) ==
    /\ pc = "weights"
    /\ cfg \in cfgs
    /\ entities \in entityLists
    /\ community_reports \in reportLists
    /\ log = <<>>
    /\ selected_reports = <<>>
    /\ attribute_cols = <<>>
    /\ header = <<>>
    /\ current_context_text = <<>>
    /\ current_tokens = 0
    /\ current_context_records = <<>>
    /\ all_context_text = <<>>
    /\ all_context_records = <<>>
    /\ idx = 0
    /\ ret = NoReturn
    /\ exception = "none"
    /\ EmitterIdle

\* Batching runs: rows of one or two tokens, a header of one or two, budgets
\* of 1..MaxTokens; every report in one community, with one entity or none.
BatchReports ==
    ReportLists([rank : {NoRank, Rank(1)}, community_id : {"c1"},
                 attributes : {NoAttributes}, ntok : {1, 2}], MaxReports)
BatchEntities ==
    {<<>>, <<[community_ids |-> {"c1"}, text_unit_ids |-> {"t1"}]>>}
BatchCfgs ==
    [use_community_summary : {TRUE}, shuffle_data : BOOLEAN,
     include_community_rank : {FALSE}, min_community_rank : {0},
     include_community_weight : {TRUE}, normalize_community_weight : {FALSE},
     max_tokens : 1..MaxTokens, single_batch : BOOLEAN, header_tokens : {1, 2}]

Init == InitWith(BatchReports, BatchEntities, BatchCfgs)
Spec == Init /\ [][Next]_vars

\* Emitter runs: a pipeline of up to MaxEmits emit calls; no context is built.
InitEmit ==
    InitWith({<<>>}, {<<>>},
             {c \in BatchCfgs : c.max_tokens = 1 /\ c.header_tokens = 1
                                /\ ~c.shuffle_data /\ ~c.single_batch})
SpecEmit == InitEmit /\ [][NextEmit]_vars

\* Weight runs: reports of two communities, with or without a weight already
\* in their attributes; entities over the two communities and two text units.
WeightReports ==
    ReportLists([rank : {Rank(1)}, community_id : {"c1", "c2"},
                 attributes : {NoAttributes, Weight(1), Weight(3)}, ntok : {1}],
                MaxWReports)
WeightEntities ==
    Lists({[community_ids |-> {"c1"}, text_unit_ids |-> {"t1"}],
           [community_ids |-> {"c2"}, text_unit_ids |-> {"t1", "t2"}],
           [community_ids |-> {"c1", "c2"}, text_unit_ids |-> {"t1", "t2"}]},
          MaxEntities)
WeightCfgs ==
    [use_community_summary : {TRUE}, shuffle_data : BOOLEAN,
     include_community_rank : {FALSE}, min_community_rank : {0},
     include_community_weight : BOOLEAN, normalize_community_weight : BOOLEAN,
     max_tokens : {2, 3}, single_batch : BOOLEAN, header_tokens : {1}]

InitWeights == InitWith(WeightReports, WeightEntities, WeightCfgs)
SpecWeights == InitWeights /\ [][Next]_vars

\* Filter runs: every rank (absent, negative, zero, positive) against every
\* threshold, with no entity, one of the reports' community or one of another.
FilterReportLists ==
    ReportLists([rank : {NoRank, Rank(-1), Rank(0), Rank(1), Rank(2)},
                 community_id : {"c1"}, attributes : {NoAttributes}, ntok : {1}],
                MaxReports)
FilterEntities ==
    BatchEntities \cup {<<[community_ids |-> {"c2"}, text_unit_ids |-> {"t1"}]>>}
FilterCfgs ==
    [use_community_summary : {TRUE}, shuffle_data : BOOLEAN,
     include_community_rank : BOOLEAN, min_community_rank : {-1, 0, 1},
     include_community_weight : {TRUE}, normalize_community_weight : BOOLEAN,
     max_tokens : {2, 3}, single_batch : BOOLEAN, header_tokens : {1}]

InitFilter == InitWith(FilterReportLists, FilterEntities, FilterCfgs)
SpecFilter == InitFilter /\ [][Next]_vars

\* Attribute runs: reports with none, one or both of an attribute "a" and the
\* weight, or with a "title" attribute, under every inclusion setting.
Attribute(key, w) == <<[k |-> key, v |-> PyInt(w)]>>
AttributeReports ==
    ReportLists([rank : {Rank(1)}, community_id : {"c1"},
                 attributes : {NoAttributes, Attribute("a", 2), Weight(1),
                               Attribute("a", 2) \o Weight(1),
                               Weight(3) \o Attribute("a", 2),
                               Attribute("title", 2) \o Attribute("a", 2)},
                 ntok : {1}],
                MaxWReports)
AttributeCfgs ==
    [use_community_summary : BOOLEAN, shuffle_data : BOOLEAN,
     include_community_rank : BOOLEAN, min_community_rank : {0},
     include_community_weight : BOOLEAN, normalize_community_weight : {FALSE},
     max_tokens : {2, 3}, single_batch : BOOLEAN, header_tokens : {1}]

InitAttributes == InitWith(AttributeReports, BatchEntities, AttributeCfgs)
SpecAttributes == InitAttributes /\ [][Next]_vars

(* ------------------------------------------------------------ properties *)
Done == pc = "done"
Filtered == pc \notin {"weights", "filter"}

\* the rows of the structured table of the returned tuple
TableRows == IF ret.tables = <<>> THEN <<>> ELSE ret.tables[1].v.rows
RowIds(rows) == {rows[i][1] : i \in 1..Len(rows)}
SelectedIds == {selected_reports[i].short_id : i \in 1..Len(selected_reports)}

\* the report a row was rendered from
ReportOfRow(row) ==
    community_reports[CHOOSE i \in 1..Len(community_reports) :
                        community_reports[i].short_id = row[1]]

\* the batches closed so far: those appended to all_context_records, or the
\* one batch a single_batch call returned at its overflow
ClosedBatches ==
    IF Done /\ ret.type = "str" THEN <<ret.tables[1].v>> ELSE all_context_records

RECURSIVE RowTokens(_)
RowTokens(rows) ==
    IF rows = <<>> THEN 0
    ELSE NumTokens(ReportOfRow(Head(rows))) + RowTokens(Tail(rows))
\* header tokens plus the tokens of the rows of a batch
BatchTokens(df) == cfg.header_tokens + RowTokens(df.rows)

\* header tokens plus the tokens of the first k reports in processing order
RECURSIVE PrefixTokens(_)
PrefixTokens(k) ==
    IF k = 0 THEN cfg.header_tokens
    ELSE PrefixTokens(k - 1) + NumTokens(selected_reports[k])
OverflowPoints ==
    {k \in 1..Len(selected_reports) : PrefixTokens(k) > cfg.max_tokens}
FirstOverflow == CHOOSE k \in OverflowPoints : \A m \in OverflowPoints : k <= m

\* C1: with single_batch off and every single row fitting the budget next to
\* the header, the returned table holds exactly one row for every report
\* that survived the filter.
C1_RowPerSurvivingReport ==
    (/\ Done
     /\ ~cfg.single_batch
     /\ \A i \in 1..Len(selected_reports) :
            cfg.header_tokens + NumTokens(selected_reports[i]) <= cfg.max_tokens)
    => /\ Len(TableRows) = Len(selected_reports)
       /\ RowIds(TableRows) = SelectedIds

\* a batch that holds one report whose row does not fit next to the header
SingleOversized(df) ==
    /\ Len(df.rows) = 1
    /\ BatchTokens(df) > cfg.max_tokens

\* C2 as stated: every closed batch, except one holding a single oversized
\* report, has header tokens + row tokens <= max_tokens.
C2_BudgetOfEveryBatch ==
    \A b \in 1..Len(ClosedBatches) :
        ~SingleOversized(ClosedBatches[b])
            => BatchTokens(ClosedBatches[b]) <= cfg.max_tokens

\* C2 as amended: every closed batch that holds at least one row has header
\* tokens + row tokens <= max_tokens (a batch of the header alone exceeds the
\* budget when the header does).
C2_BudgetOfEveryFilledBatch ==
    \A b \in 1..Len(ClosedBatches) :
        Len(ClosedBatches[b].rows) >= 1
            => BatchTokens(ClosedBatches[b]) <= cfg.max_tokens

\* two batches were closed, the first filled to the budget with two rows
C2_Witness ==
    /\ Done
    /\ Len(ClosedBatches) = 2
    /\ Len(ClosedBatches[1].rows) = 2
    /\ BatchTokens(ClosedBatches[1]) = cfg.max_tokens

\* C3: without single_batch, a surviving report whose row alone exceeds
\* max_tokens still has its row in the returned table.
C3_OversizedReportEmitted ==
    (Done /\ ~cfg.single_batch)
    => \A i \in 1..Len(selected_reports) :
           NumTokens(selected_reports[i]) > cfg.max_tokens
               => selected_reports[i].short_id \in RowIds(TableRows)

\* C4: with single_batch, a call in which some report overflows returns one
\* batch (one text, one frame) whose rows are exactly the reports before the
\* first overflow; that report and all later ones are absent.
C4_SingleBatchStopsAtOverflow ==
    (Done /\ cfg.single_batch /\ OverflowPoints # {})
    => /\ ret.type = "str"
       /\ Len(ret.tables) = 1
       /\ Len(TableRows) = FirstOverflow - 1
       /\ RowIds(TableRows) =
            {selected_reports[i].short_id : i \in 1..(FirstOverflow - 1)}
       /\ ret.text = ToCsv(ret.tables[1].v)

\* one report was kept, the second overflowed, and a third one that would
\* have fitted next to the header came after it
C4_Witness ==
    /\ Done
    /\ cfg.single_batch
    /\ OverflowPoints # {}
    /\ FirstOverflow = 2
    /\ Len(selected_reports) = 3
    /\ cfg.header_tokens + NumTokens(selected_reports[3]) <= cfg.max_tokens
    /\ Len(TableRows) = 1

\* C5: for a non-empty selection the text member is one string when
\* single_batch is on and a list of strings when it is off.
C5_TextShapeBySingleBatch ==
    (Done /\ Len(selected_reports) > 0)
    => ret.type = (IF cfg.single_batch THEN "str" ELSE "list")

\* rank is present and rank >= min_community_rank
KeepsRankPresent(report, min_community_rank) ==
    /\ HasRank(report)
    /\ Geq(RankOf(report), PyInt(min_community_rank))

\* C6: a report is kept iff its rank is present and >= min_community_rank.
C6_KeptIffRankAtLeastMin ==
    Filtered =>
        \A i \in 1..Len(community_reports) :
            (community_reports[i].short_id \in SelectedIds)
                <=> KeepsRankPresent(community_reports[i], cfg.min_community_rank)

\* the weight of the i-th report
WeightOf(i) == Get(community_reports[i].attributes, WeightName)
WeightsRan == Len(log) > 0
\* some entity lists the community of some report (and names a text unit)
SomeRawWeight ==
    \E i \in 1..Len(community_reports), j \in 1..Len(entities) :
        /\ community_reports[i].community_id \in entities[j].community_ids
        /\ entities[j].text_unit_ids # {}

\* C7: when the weights are computed with normalize on and no entity lists
\* the community of any report, nothing is raised and every weight stays 0.
C7_ZeroMaxIsNoOp ==
    (WeightsRan /\ cfg.normalize_community_weight /\ ~SomeRawWeight)
    => /\ exception = "none"
       /\ \A i \in 1..Len(community_reports) : NumEq(WeightOf(i), PyInt(0))

\* C8: a report whose attributes hold the weight key keeps the value it has.
C8_ExistingWeightKept ==
    [][\A i \in 1..Len(community_reports) :
          HasKey(community_reports[i].attributes, WeightName)
              => /\ HasKey(community_reports'[i].attributes, WeightName)
                 /\ Get(community_reports'[i].attributes, WeightName)
                      = Get(community_reports[i].attributes, WeightName)]_vars

\* the cell of a row under a column
Cell(df, i, col) == df.rows[i][ColumnIndex(df.columns, col)]
\* the place of a row's report in the processing order
Place(row) ==
    CHOOSE k \in 1..Len(selected_reports) : selected_reports[k].short_id = row[1]

NonIncreasing(df, i, j, col) ==
    (Parsable(Cell(df, i, col)) /\ Parsable(Cell(df, j, col)))
        => Geq(Float(Cell(df, i, col)), Float(Cell(df, j, col)))
Tied(df, i, j, col) ==
    /\ Parsable(Cell(df, i, col)) /\ Parsable(Cell(df, j, col))
    /\ NumEq(Float(Cell(df, i, col)), Float(Cell(df, j, col)))

\* C9: in every closed batch, rows are in non-increasing order of weight
\* whenever the table has the weight column, rows of equal weight in
\* non-increasing order of rank when the table has the rank column, and in
\* accumulation order when it has neither.
C9_BatchesSortedByWeightThenRank ==
    \A b \in 1..Len(ClosedBatches) :
        LET df == ClosedBatches[b]
            hasWeight == InHeader(df.columns, WeightName)
            hasRank == cfg.include_community_rank /\ InHeader(df.columns, RankName)
        IN  \A i, j \in 1..Len(df.rows) : i < j =>
                /\ hasWeight => NonIncreasing(df, i, j, WeightName)
                /\ (hasWeight /\ hasRank /\ Tied(df, i, j, WeightName))
                       => NonIncreasing(df, i, j, RankName)
                /\ (~hasWeight /\ ~hasRank)
                       => Place(df.rows[i]) < Place(df.rows[j])

\* the raw weight of a report: the distinct text units of the entities that
\* list its community
RawWeight(i) ==
    Cardinality(UNION {entities[j].text_unit_ids :
                         j \in {m \in 1..Len(entities) :
                                  community_reports[i].community_id
                                      \in entities[m].community_ids}})
MaxRawWeight ==
    CHOOSE w \in {RawWeight(i) : i \in 1..Len(community_reports)} :
        \A i \in 1..Len(community_reports) : w >= RawWeight(i)

\* C10: after the weights are computed with normalize on over reports of
\* which one has a nonzero raw weight, every weight is its raw weight over
\* the maximum raw weight, lies in [0, 1], and the largest weight is 1.
C10_NormalizedWeightsInUnitInterval ==
    (WeightsRan /\ cfg.normalize_community_weight /\ SomeRawWeight)
    => /\ exception # "ZeroDivisionError"
       /\ \A i \in 1..Len(community_reports) :
            /\ Geq(WeightOf(i), PyInt(0))
            /\ Geq(PyInt(1), WeightOf(i))
            /\ WeightOf(i).n * MaxRawWeight = RawWeight(i) * WeightOf(i).d
       /\ \E i \in 1..Len(community_reports) : NumEq(WeightOf(i), PyInt(1))

\* weights 1/2 and 1 were assigned and the call returned
C10_Witness ==
    /\ Done
    /\ WeightsRan
    /\ cfg.normalize_community_weight
    /\ \E i, j \in 1..Len(community_reports) :
          /\ WeightOf(i) = [n |-> 1, d |-> 2, f |-> TRUE]
          /\ WeightOf(j) = [n |-> 1, d |-> 1, f |-> TRUE]

\* the rows rendered so far: those of the batch being built and those of the
\* batches closed
OpenRows ==
    IF pc = "loop" /\ Len(current_context_records) > 1
    THEN {current_context_records[i] : i \in 2..Len(current_context_records)}
    ELSE {}
ClosedRows ==
    UNION {{ClosedBatches[b].rows[i] : i \in 1..Len(ClosedBatches[b].rows)} :
             b \in 1..Len(ClosedBatches)}
RenderedRows == OpenRows \cup ClosedRows

\* a row has "" under every attribute column its report lacks
MissingRenderedEmpty(row) ==
    \A i \in 1..Len(attribute_cols) :
        ~HasKey(ReportOfRow(row).attributes, attribute_cols[i]) => row[2 + i] = ""

SomeSelectedLacks(key) ==
    \E i \in 1..Len(selected_reports) : ~HasKey(selected_reports[i].attributes, key)

ReturnedTexts == IF ret.type = "str" THEN <<ret.text>> ELSE ret.text

\* C12: every returned batch text is the banner line, the header line and
\* one line per row of the sorted batch, and the table is keyed by the
\* lower-cased context name.
C12_BatchTextIsBannerHeaderRows ==
    (Done /\ Len(selected_reports) > 0)
    => /\ Len(ReturnedTexts) = Len(ClosedBatches)
       /\ \A b \in 1..Len(ReturnedTexts) :
            ReturnedTexts[b] = <<Banner, header>> \o ClosedBatches[b].rows
       /\ Len(ret.tables) = 1
       /\ ret.tables[1].k = "reports"

\* the rank of a row's report is present and >= min_community_rank
RowRankAtLeastMin(row) ==
    /\ HasRank(ReportOfRow(row))
    /\ Geq(RankOf(ReportOfRow(row)), PyInt(cfg.min_community_rank))

\* C13: every row of every batch comes from a report whose rank is present
\* and >= min_community_rank.
C13_OutputRanksAtLeastMin ==
    /\ \A row \in RenderedRows : RowRankAtLeastMin(row)
    /\ \A i \in 1..Len(TableRows) : RowRankAtLeastMin(TableRows[i])

\* a table was returned although the input held a report without rank and a
\* report whose rank is below the threshold
C13_Witness ==
    /\ Done
    /\ Len(TableRows) > 0
    /\ \E i, j \in 1..Len(community_reports) :
          /\ ~HasRank(community_reports[i])
          /\ HasRank(community_reports[j])
          /\ ~Geq(RankOf(community_reports[j]), PyInt(cfg.min_community_rank))

\* C14: when no report survives the rank filter the call returns ([], {})
\* and raises nothing.
C14_EmptySelectionReturnsEmpty ==
    (/\ pc \notin {"weights", "filter"}
     /\ Selected(community_reports, cfg.min_community_rank) = <<>>)
    => /\ Done
       /\ ret.type = "list"
       /\ ret.text = <<>>
       /\ ret.tables = <<>>
       /\ exception = "none"

\* C15: when the conversion or the storing of the table ends in a
\* serialization failure (ArrowTypeError, ArrowInvalid), emit does not raise:
\* it has returned, and the last call of the error handler carries that
\* exception, its traceback and None.
C15_SerializationFailureReportedNotRaised ==
    e \in ArrowErrors =>
        /\ emitter_pc = "returned"
        /\ on_error # <<>>
        /\ on_error[Len(on_error)] = <<e, FormatExc(e), "None">>
        /\ emitter_log[Len(emitter_log)][1] = "exception"

\* a second failure is reported, after the pipeline got over a first one and
\* a table was stored in between or before
C15_Witness ==
    /\ emitter_pc = "returned"
    /\ e = "ArrowInvalid"
    /\ Len(on_error) = 2
    /\ on_error[1][1] = "ArrowTypeError"
    /\ \E f \in FileNames : storage[f] # NoBytes

\* the attribute columns the header is to name: the keys of the first
\* report in processing order, without id and title, and without the weight
\* when the weight is excluded
ExpectedCols ==
    LET kept(k) == /\ k \notin {"id", "title"}
                   /\ (cfg.include_community_weight \/ k # WeightName)
    IN  SelectSeq(Keys(selected_reports[1].attributes), kept)

HeaderInOrder ==
    LET n == Len(ExpectedCols)
    IN  /\ Len(header) = 3 + n + (IF cfg.include_community_rank THEN 1 ELSE 0)
        /\ header[1] = "id"
        /\ header[2] = "title"
        /\ \A i \in 1..n : header[2 + i] = ExpectedCols[i]
        /\ header[3 + n] = (IF cfg.use_community_summary THEN "summary" ELSE "content")
        /\ cfg.include_community_rank => header[4 + n] = RankName

\* a cell holds the text, or the same number as astype(float) wrote it back
SameCell(cell, text) ==
    \/ cell = text
    \/ /\ Parsable(cell)
       /\ Parsable(text)
       /\ NumEq(Float(cell), Float(text))

RowInHeaderOrder(row) ==
    LET report == ReportOfRow(row)
        n == Len(ExpectedCols)
    IN  /\ Len(row) = Len(header)
        /\ row[1] = report.short_id
        /\ row[2] = report.title
        /\ \A i \in 1..n :
              SameCell(row[2 + i],
                       IF HasKey(report.attributes, ExpectedCols[i])
                       THEN Str(Get(report.attributes, ExpectedCols[i]))
                       ELSE "")
        /\ row[3 + n] = (IF cfg.use_community_summary
                         THEN report.summary ELSE report.full_content)
        /\ cfg.include_community_rank => SameCell(row[4 + n], Str(RankOf(report)))

\* C16: the header is id, title, the attribute columns (without id and
\* title, without the weight when it is excluded), summary or content, then
\* rank when included; every batch that has rows names that header and every
\* rendered row has one field per header column, in that order.
C16_RowsFollowHeaderOrder ==
    header # <<>> =>
        /\ HeaderInOrder
        /\ \A b \in 1..Len(ClosedBatches) :
              ClosedBatches[b].rows # <<>> => ClosedBatches[b].columns = header
        /\ \A row \in RenderedRows : RowInHeaderOrder(row)

\* a returned table of two rows under id, title, a, body, rank: the first
\* report has a weight that is excluded and one of the two has no "a"
C16_Witness ==
    /\ Done
    /\ Len(TableRows) = 2
    /\ cfg.include_community_rank
    /\ ~cfg.include_community_weight
    /\ HasKey(selected_reports[1].attributes, WeightName)
    /\ Len(header) = 5
    /\ \E i \in 1..2 : ~HasKey(ReportOfRow(TableRows[i]).attributes, "a")

\* C17: the weight the first loop assigns to a report is the number of
\* distinct text units of the entities that list the report's community, 0
\* when none does.  The assigned weights are what the reports hold when
\* normalize is off, and when the division by a zero maximum stopped the
\* normalization at its first report.
C17_WeightIsDistinctTextUnitCount ==
    (WeightsRan /\ (~cfg.normalize_community_weight \/ exception = "ZeroDivisionError"))
    => \A i \in 1..Len(community_reports) :
          /\ HasKey(community_reports[i].attributes, WeightName)
          /\ WeightOf(i) = PyInt(RawWeight(i))
          /\ (\A j \in 1..Len(entities) :
                community_reports[i].community_id \notin entities[j].community_ids)
             => WeightOf(i) = PyInt(0)

\* two entities of one community share their text unit, which counts once;
\* a report of a community no entity lists has weight 0
C17_Witness ==
    /\ Done
    /\ WeightsRan
    /\ ~cfg.normalize_community_weight
    /\ Len(entities) = 2
    /\ \E i, j \in 1..Len(community_reports) :
          /\ \A k \in 1..2 :
                /\ community_reports[i].community_id \in entities[k].community_ids
                /\ "t1" \in entities[k].text_unit_ids
          /\ WeightOf(i) = PyInt(1)
          /\ WeightOf(j) = PyInt(0)

\* every surviving report's row fits a batch that holds only the header
EveryRowFitsFreshBatch ==
    \A i \in 1..Len(selected_reports) :
        cfg.header_tokens + NumTokens(selected_reports[i]) <= cfg.max_tokens

\* C18: with single_batch off and every surviving row fitting a fresh batch,
\* every batch of the returned sequence has at least one row.
C18_NoEmptyBatchReturned ==
    (Done /\ ~cfg.single_batch /\ EveryRowFitsFreshBatch)
    => \A b \in 1..Len(ClosedBatches) : ClosedBatches[b].rows # <<>>

\* the places, in processing order, of the reports of a batch
Places(df) == {Place(df.rows[i]) : i \in 1..Len(df.rows)}

\* no report stands twice in a batch
NoRepeat(df) == \A i, j \in 1..Len(df.rows) : df.rows[i][1] = df.rows[j][1] => i = j

\* C19: the batches are contiguous segments of the processing order: every
\* report of an earlier batch comes before every report of a later batch (and
\* of the batch being built), no report is in two batches or twice in one,
\* and the returned table holds the rows of the batches, batch after batch.
C19_BatchesAreSegmentsOfProcessingOrder ==
    /\ \A a, b \in 1..Len(ClosedBatches) : a < b =>
          \A m \in Places(ClosedBatches[a]), n \in Places(ClosedBatches[b]) : m < n
    /\ \A b \in 1..Len(ClosedBatches) :
          /\ NoRepeat(ClosedBatches[b])
          /\ \A m \in Places(ClosedBatches[b]), row \in OpenRows : m < Place(row)
          /\ \A m \in Places(ClosedBatches[b]) : m < idx
    /\ (Done /\ ret.type = "list" /\ ret.tables # <<>>)
          => TableRows = ConcatRows(ClosedBatches)

\* a returned sequence with two batches that have rows
C19_Witness ==
    /\ Done
    /\ ret.type = "list"
    /\ \E a, b \in 1..Len(ClosedBatches) :
          /\ a < b
          /\ ClosedBatches[a].rows # <<>>
          /\ ClosedBatches[b].rows # <<>>
====
